---- MODULE Spec2Model ----
(***************************************************************************)
(* Model of src/email_verifier.py: verify_email (syntax gate, MX lookup,   *)
(* ordered walk over the mail exchangers) and smtp_check (one SMTP         *)
(* conversation on one socket).                                            *)
(*                                                                         *)
(* Strings are sequences of one-character strings, so that startswith,     *)
(* slicing, rstrip, split and str comparison are computed as Python        *)
(* computes them.  The f-string messages are represented by their fixed    *)
(* leading text (the interpolated tail is dropped).                        *)
(*                                                                         *)
(* The environment (DNS resolver, mail servers) is nondeterministic: each  *)
(* network operation either returns data drawn from a bounded set or       *)
(* raises.  The variables contacted, dnsQueries, openSocks, wire and       *)
(* convo are observations of what the code did on the network; the code    *)
(* itself never reads them.                                                *)
(***************************************************************************)
EXTENDS Integers, Sequences, FiniteSets, TLC

VARIABLES
    pc,             \* position inside verify_email / smtp_check
    email,          \* verify_email argument
    result,         \* verify_email: result dict
    domain,         \* verify_email: domain
    dnsAnswer,      \* the records dns.resolver.resolve returned, as a set
    mx_hosts,       \* verify_email: sorted list of (preference, host)
    idx,            \* position of the for loop over mx_hosts
    smtp_verified,  \* verify_email local
    smtp_response,  \* verify_email local
    is_catch_all,   \* verify_email local
    sres,           \* smtp_check: result dict
    response,       \* smtp_check: response
    catch_all_response, \* smtp_check: catch_all_response
    contacted,      \* hosts on which sock.connect was called, in order
    dnsQueries,     \* number of dns.resolver.resolve calls
    dnsError,       \* the exception dns.resolver.resolve raised, "" if none
    openSocks,      \* connections opened and not closed by sock.close()
    wire,           \* commands sent / close() on the latest connection
    convo           \* what happened in the latest smtp_check call

vars == <<pc, email, result, domain, dnsAnswer, mx_hosts, idx, smtp_verified,
          smtp_response, is_catch_all, sres, response, catch_all_response,
          contacted, dnsQueries, dnsError, openSocks, wire, convo>>

(***************************************************************************)
(* Bounds                                                                  *)
(***************************************************************************)
\* longest e-mail string drawn exhaustively over GridChars
MaxEmailLen == 4
\* most MX records in one DNS answer
MaxMX == 2

(***************************************************************************)
(* Python string primitives                                                *)
(***************************************************************************)
\* Python's None
None == [none |-> TRUE]

\* str.startswith
StartsWith(s, p) ==
    /\ Len(s) >= Len(p)
    /\ \A i \in 1..Len(p) : s[i] = p[i]

\* s[:n]
Prefix(s, n) == IF Len(s) <= n THEN s ELSE SubSeq(s, 1, n)

\* str.rstrip('.')
RECURSIVE RStripDot(_)
RStripDot(s) ==
    IF Len(s) > 0 /\ s[Len(s)] = "."
    THEN RStripDot(SubSeq(s, 1, Len(s) - 1))
    ELSE s

\* ord() of the characters that occur in host names
Ord(c) ==
    CASE c = "-" -> 45
      [] c = "." -> 46
      [] c = "1" -> 49
      [] c = "a" -> 97
      [] c = "b" -> 98
      [] c = "m" -> 109
      [] c = "x" -> 120
      [] OTHER -> 0

\* str < str (lexicographic by code point)
RECURSIVE StrLess(_, _)
StrLess(s, t) ==
    IF Len(t) = 0 THEN FALSE
    ELSE IF Len(s) = 0 THEN TRUE
    ELSE IF s[1] # t[1] THEN Ord(s[1]) < Ord(t[1])
    ELSE StrLess(Tail(s), Tail(t))

\* tuple < tuple for (preference, host) pairs
TupleLess(a, b) ==
    \/ a[1] < b[1]
    \/ a[1] = b[1] /\ StrLess(a[2], b[2])

\* sorted(): stable insertion of x into an already sorted list
RECURSIVE InsertSorted(_, _)
InsertSorted(x, l) ==
    IF Len(l) = 0 THEN <<x>>
    ELSE IF TupleLess(x, l[1]) THEN <<x>> \o l
    ELSE <<l[1]>> \o InsertSorted(x, Tail(l))

RECURSIVE Sorted(_)
Sorted(l) ==
    IF Len(l) = 0 THEN <<>>
    ELSE InsertSorted(l[Len(l)], Sorted(SubSeq(l, 1, Len(l) - 1)))

(***************************************************************************)
(* Step 1: the syntax pattern                                              *)
(*   ^[a-zA-Z0-9._%+-]+@[a-zA-Z0-9.-]+\.[a-zA-Z]{2,}$                      *)
(***************************************************************************)
Letters == {"a", "b", "m", "x", "A", "Z"}
Digits == {"0", "1", "9"}
LocalChars == Letters \cup Digits \cup {".", "_", "%", "+", "-"}
DomainChars == Letters \cup Digits \cup {".", "-"}

\* the pattern without the anchors, matched against the whole of t
FullMatch(t) ==
    \E i \in 2..Len(t) :
        /\ t[i] = "@"
        /\ \A j \in 1..(i - 1) : t[j] \in LocalChars
        /\ \E k \in (i + 2)..(Len(t) - 2) :
              /\ t[k] = "."
              /\ \A j \in (i + 1)..(k - 1) : t[j] \in DomainChars
              /\ \A j \in (k + 1)..Len(t) : t[j] \in Letters

\* re.match(email_regex, email): $ matches at the end of the string and
\* also just before a newline that ends the string
ReMatch(s) ==
    \/ FullMatch(s)
    \/ /\ Len(s) > 0
       /\ s[Len(s)] = "\n"
       /\ FullMatch(SubSeq(s, 1, Len(s) - 1))

\* email.split('@')[1]: the text between the first and the second '@'
RECURSIVE UpToAt(_)
UpToAt(s) ==
    IF Len(s) = 0 \/ s[1] = "@" THEN <<>>
    ELSE <<s[1]>> \o UpToAt(Tail(s))

SplitDomain(s) ==
    LET first == Len(UpToAt(s))
    IN  UpToAt(SubSeq(s, first + 2, Len(s)))

(***************************************************************************)
(* Inputs and environment                                                  *)
(***************************************************************************)
\* all strings over chars of length at most n
Strings(chars, n) == UNION {[1..k -> chars] : k \in 0..n}

\* characters of the exhaustively enumerated e-mail strings
GridChars == {"a", "@", "."}

\* further e-mail strings that exercise the other character classes
ExtraEmails ==
    { <<"a", "+", "1", "@", "a", "-", "1", ".", "a", "Z">>,
      <<"a", "@", "a", ".", "a", "a", "\n">>,
      <<"a", "@", "a", ".", "a">>,
      <<"a", "@", "a", ".", "a", "1">>,
      <<"a", "@", "a", "+", ".", "a", "a">>,
      <<"a", " ", "@", "a", ".", "a", "a">>,
      <<"a", "@", "a", ".", "a", "a", " ">>,
      <<"\n", "a", "@", "a", ".", "a", "a">>,
      <<"a", "@", "a", ".", "a", "-">> }

Emails == Strings(GridChars, MaxEmailLen) \cup ExtraEmails

\* MX records the resolver may return: r.preference, str(r.exchange)
Preferences == {5, 10}
Exchanges == { <<"a", ".">>, <<"b", ".">> }
MXRecord == [preference : Preferences, exchange : Exchanges]
\* an answer is a list of distinct records (an RRset), in any order
DnsAnswers ==
    {a \in UNION {[1..k -> MXRecord] : k \in 0..MaxMX} :
        \A i, j \in 1..Len(a) : i # j => a[i] # a[j]}

\* exceptions dns.resolver.resolve may raise ("Timeout" stands for any
\* exception other than the three the code names)
DnsErrors == {"NoAnswer", "NXDOMAIN", "NoNameservers", "Timeout"}

\* exceptions a socket operation may raise: socket.timeout, socket.error
SockErrors == {"timeout", "error"}
\* sock.connect may also raise an exception that is not a socket error
\* (a host name that cannot be encoded)
ConnectErrors == SockErrors \cup {"other"}

\* server replies, as received by sock.recv(1024).decode()
R220 == <<"2", "2", "0">>
R250 == <<"2", "5", "0">>
R251 == <<"2", "5", "1">>
R252 == <<"2", "5", "2">>
R450 == <<"4", "5", "0">>
R451 == <<"4", "5", "1">>
R452 == <<"4", "5", "2">>
R502 == <<"5", "0", "2">>
R550 == <<"5", "5", "0">>
R551 == <<"5", "5", "1">>
R552 == <<"5", "5", "2">>
R553 == <<"5", "5", "3">>
R554 == <<"5", "5", "4">>
R250OK == <<"2", "5", "0", " ", "O", "K">>
RShort == <<"2", "5">>
REmpty == << >>

GreetingReplies == {R220, R554, REmpty}
HelloReplies == {R250, R220, R251, R502}
MailReplies == {R250, R251, R550}
RcptReplies == {R250, R250OK, R251, R252, R550, R551, R553,
                R450, R451, R452, R552, RShort}
FakeReplies == {R250, R251, R252, R550, REmpty}

(***************************************************************************)
(* smtp_check: result dict and the analysis of the two RCPT replies        *)
(***************************************************************************)
\* smtp_code None (a code is three characters, so the empty string is free)
NoCode == << >>

\* lines 137-144
NewSmtpResult(mx_host) ==
    [success |-> FALSE, catch_all |-> FALSE, mx_host |-> mx_host,
     message |-> "", smtp_code |-> NoCode, definitive_failure |-> FALSE]

\* line 179: response[:3] if len(response) >= 3 else None
SmtpCode(resp) == IF Len(resp) >= 3 THEN Prefix(resp, 3) ELSE NoCode

\* an acceptance test that leaves out 251
IsAcceptedOnly250(resp) == StartsWith(resp, R250)

\* line 195: the real reply is an acceptance
IsAccepted(resp) == StartsWith(resp, R250) \/ StartsWith(resp, R251)

\* line 200: the reply to the random address is an acceptance
IsCatchAllReply(fake) == StartsWith(fake, R250) \/ StartsWith(fake, R251)

\* a definitive-failure test that leaves out 553
IsDefinitiveNo553(resp) == StartsWith(resp, R550) \/ StartsWith(resp, R551)

\* line 209: the real reply is a definitive rejection
IsDefinitive(resp) ==
    StartsWith(resp, R550) \/ StartsWith(resp, R551) \/ StartsWith(resp, R553)

\* line 214: the real reply is a temporary failure
IsTemporary(resp) ==
    StartsWith(resp, R450) \/ StartsWith(resp, R451) \/ StartsWith(resp, R452)

\* the analysis with a 252 branch that sets catch_all but not success
Analyze252NoSuccess(res, resp, fake) ==
    IF IsAccepted(resp)
    THEN IF IsCatchAllReply(fake)
         THEN [res EXCEPT !.success = TRUE, !.catch_all = TRUE,
                 !.message = "Server is catch-all (accepts all addresses)"]
         ELSE [res EXCEPT !.success = TRUE,
                 !.message = "Email accepted by server"]
    ELSE IF StartsWith(resp, R252)
    THEN [res EXCEPT !.catch_all = TRUE,
            !.message = "Server cannot verify but will accept"]
    ELSE IF IsDefinitive(resp)
    THEN [res EXCEPT !.success = FALSE, !.definitive_failure = TRUE,
            !.message = "Email rejected: "]
    ELSE IF IsTemporary(resp)
    THEN [res EXCEPT !.success = FALSE, !.message = "Temporary failure: "]
    ELSE [res EXCEPT !.message = "Unexpected response: "]

\* the analysis with a 252 branch that does not set catch_all
AnalyzePlain252(res, resp, fake) ==
    IF IsAccepted(resp)
    THEN IF IsCatchAllReply(fake)
         THEN [res EXCEPT !.success = TRUE, !.catch_all = TRUE,
                 !.message = "Server is catch-all (accepts all addresses)"]
         ELSE [res EXCEPT !.success = TRUE,
                 !.message = "Email accepted by server"]
    ELSE IF StartsWith(resp, R252)
    THEN [res EXCEPT !.success = TRUE,
            !.message = "Server cannot verify but will accept"]
    ELSE IF IsDefinitive(resp)
    THEN [res EXCEPT !.success = FALSE, !.definitive_failure = TRUE,
            !.message = "Email rejected: "]
    ELSE IF IsTemporary(resp)
    THEN [res EXCEPT !.success = FALSE, !.message = "Temporary failure: "]
    ELSE [res EXCEPT !.message = "Unexpected response: "]

\* lines 195-219
Analyze(res, resp, fake) ==
    IF IsAccepted(resp)
    THEN IF IsCatchAllReply(fake)
         THEN [res EXCEPT !.success = TRUE, !.catch_all = TRUE,
                 !.message = "Server is catch-all (accepts all addresses)"]
         ELSE [res EXCEPT !.success = TRUE,
                 !.message = "Email accepted by server"]
    ELSE IF StartsWith(resp, R252)
    THEN [res EXCEPT !.success = TRUE, !.catch_all = TRUE,
            !.message = "Server cannot verify but will accept"]
    ELSE IF IsDefinitive(resp)
    THEN [res EXCEPT !.success = FALSE, !.definitive_failure = TRUE,
            !.message = "Email rejected: "]
    ELSE IF IsTemporary(resp)
    THEN [res EXCEPT !.success = FALSE, !.message = "Temporary failure: "]
    ELSE [res EXCEPT !.message = "Unexpected response: "]

\* lines 221-226: the except clauses only set the message
ExceptMessage(kind) ==
    IF kind = "timeout" THEN "Connection timeout to "
    ELSE IF kind = "error" THEN "Socket error: "
    ELSE "Error: "

(***************************************************************************)
(* verify_email                                                            *)
(***************************************************************************)
\* lines 23-33
NewResult(e) ==
    [email |-> e, syntax_valid |-> FALSE, mx_found |-> FALSE,
     mx_records |-> << >>, smtp_check |-> FALSE, smtp_response |-> None,
     status |-> "unknown", score |-> 0, message |-> ""]

\* the record of a conversation in which nothing has happened yet
NoConvo == [opened |-> FALSE, greeting |-> << >>, mail |-> << >>,
            real |-> << >>, fake |-> << >>,
            raised |-> FALSE, finished |-> FALSE]

Init ==
    /\ pc = "syntax"
    /\ email \in Emails
    /\ result = NewResult(email)
    /\ domain = << >>
    /\ dnsAnswer = {}
    /\ mx_hosts = << >>
    /\ idx = 0
    /\ smtp_verified = FALSE
    /\ smtp_response = None
    /\ is_catch_all = FALSE
    /\ sres = None
    /\ response = << >>
    /\ catch_all_response = << >>
    /\ contacted = << >>
    /\ dnsQueries = 0
    /\ dnsError = ""
    /\ openSocks = 0
    /\ wire = << >>
    /\ convo = NoConvo

netVars == <<contacted, dnsQueries, dnsError, openSocks, wire, convo>>
checkVars == <<sres, response, catch_all_response>>
loopVars == <<mx_hosts, idx, smtp_verified, smtp_response, is_catch_all>>

\* the syntax gate without its return statement
SyntaxGateNoReturn ==
    /\ pc = "syntax"
    /\ IF ~ReMatch(email)
       THEN result' = [result EXCEPT !.message = "Invalid email syntax",
                                     !.status = "invalid",
                                     !.syntax_valid = TRUE,
                                     !.score = @ + 20]
       ELSE result' = [result EXCEPT !.syntax_valid = TRUE,
                                     !.score = @ + 20]
    /\ domain' = SplitDomain(email)
    /\ pc' = "resolve"
    /\ UNCHANGED <<email, dnsAnswer, loopVars, checkVars, netVars>>

\* lines 35-46: syntax validation and domain extraction
SyntaxGate ==
    /\ pc = "syntax"
    /\ IF ~ReMatch(email)
       THEN /\ result' = [result EXCEPT !.message = "Invalid email syntax",
                                        !.status = "invalid"]
            /\ pc' = "done"
            /\ UNCHANGED domain
       ELSE /\ result' = [result EXCEPT !.syntax_valid = TRUE,
                                        !.score = @ + 20]
            /\ domain' = SplitDomain(email)
            /\ pc' = "resolve"
    /\ UNCHANGED <<email, dnsAnswer, loopVars, checkVars, netVars>>

\* the hosts in the order the resolver gave them (no sorted())
MxHostsUnsorted(answer) ==
    [i \in 1..Len(answer) |->
        <<answer[i].preference, RStripDot(answer[i].exchange)>>]

\* line 51: sorted([(r.preference, str(r.exchange).rstrip('.')) ...])
MxHosts(answer) ==
    Sorted([i \in 1..Len(answer) |->
              <<answer[i].preference, RStripDot(answer[i].exchange)>>])

\* the lookup without the second except clause (line 59): an exception the
\* first clause does not name leaves verify_email
ResolveFailsUncaught(err) ==
    /\ pc = "resolve"
    /\ dnsQueries' = dnsQueries + 1
    /\ dnsError' = err
    /\ IF err \in {"NoAnswer", "NXDOMAIN", "NoNameservers"}
       THEN /\ result' = [result EXCEPT
                            !.message = "No MX records found for domain: ",
                            !.status = "invalid"]
            /\ pc' = "done"
       ELSE /\ pc' = "raised"
            /\ UNCHANGED result
    /\ UNCHANGED <<email, domain, dnsAnswer, loopVars, checkVars,
                   contacted, openSocks, wire, convo>>

\* the first except clause without dns.resolver.NXDOMAIN
ResolveFailsNoNXDOMAIN(err) ==
    /\ pc = "resolve"
    /\ dnsQueries' = dnsQueries + 1
    /\ dnsError' = err
    /\ IF err \in {"NoAnswer", "NoNameservers"}
       THEN result' = [result EXCEPT
                          !.message = "No MX records found for domain: ",
                          !.status = "invalid"]
       ELSE result' = [result EXCEPT
                          !.message = "DNS lookup failed: ",
                          !.status = "unknown"]
    /\ pc' = "done"
    /\ UNCHANGED <<email, domain, dnsAnswer, loopVars, checkVars,
                   contacted, openSocks, wire, convo>>

\* lines 48-62, the resolver raising err
ResolveFails(err) ==
    /\ pc = "resolve"
    /\ dnsQueries' = dnsQueries + 1
    /\ dnsError' = err
    /\ IF err \in {"NoAnswer", "NXDOMAIN", "NoNameservers"}
       THEN result' = [result EXCEPT
                          !.message = "No MX records found for domain: ",
                          !.status = "invalid"]
       ELSE result' = [result EXCEPT
                          !.message = "DNS lookup failed: ",
                          !.status = "unknown"]
    /\ pc' = "done"
    /\ UNCHANGED <<email, domain, dnsAnswer, loopVars, checkVars,
                   contacted, openSocks, wire, convo>>

\* the resolver's answer handled so that an empty host list gives invalid
ResolveAnswersEmptyInvalid(answer) ==
    /\ pc = "resolve"
    /\ dnsQueries' = dnsQueries + 1
    /\ dnsAnswer' = {answer[i] : i \in 1..Len(answer)}
    /\ mx_hosts' = MxHosts(answer)
    /\ LET r1 == [result EXCEPT
                    !.mx_found = TRUE,
                    !.mx_records = [i \in 1..Len(mx_hosts') |-> mx_hosts'[i][2]],
                    !.score = @ + 30]
       IN  IF Len(mx_hosts') = 0
           THEN /\ result' = [r1 EXCEPT
                                !.message = "No MX records to verify against",
                                !.status = "invalid"]
                /\ pc' = "done"
           ELSE /\ result' = r1
                /\ pc' = "loop"
    /\ smtp_verified' = FALSE
    /\ smtp_response' = None
    /\ is_catch_all' = FALSE
    /\ UNCHANGED <<email, domain, idx, checkVars,
                   contacted, dnsError, openSocks, wire, convo>>

\* lines 48-73, the resolver returning answer
ResolveAnswers(answer) ==
    /\ pc = "resolve"
    /\ dnsQueries' = dnsQueries + 1
    /\ dnsAnswer' = {answer[i] : i \in 1..Len(answer)}
    /\ mx_hosts' = MxHosts(answer)
    /\ LET r1 == [result EXCEPT
                    !.mx_found = TRUE,
                    !.mx_records = [i \in 1..Len(mx_hosts') |-> mx_hosts'[i][2]],
                    !.score = @ + 30]
       IN  IF Len(mx_hosts') = 0
           THEN /\ result' = [r1 EXCEPT
                                !.message = "No MX records to verify against",
                                !.status = "unknown"]
                /\ pc' = "done"
           ELSE /\ result' = r1
                /\ pc' = "loop"
    /\ smtp_verified' = FALSE
    /\ smtp_response' = None
    /\ is_catch_all' = FALSE
    /\ UNCHANGED <<email, domain, idx, checkVars,
                   contacted, dnsError, openSocks, wire, convo>>

Resolve ==
    /\ pc = "resolve"
    /\ \/ \E err \in DnsErrors : ResolveFails(err)
       \/ \E answer \in DnsAnswers : ResolveAnswers(answer)

\* a loop that leaves after its first iteration
LoopHeadFirstOnly ==
    /\ pc = "loop"
    /\ IF idx < Len(mx_hosts) /\ idx = 0
       THEN /\ idx' = idx + 1
            /\ sres' = NewSmtpResult(mx_hosts[idx + 1][2])
            /\ pc' = "connect"
       ELSE /\ pc' = "finish"
            /\ UNCHANGED <<idx, sres>>
    /\ UNCHANGED <<email, result, domain, dnsAnswer, mx_hosts, smtp_verified,
                   smtp_response, is_catch_all, response, catch_all_response,
                   netVars>>

\* line 75 and the entry of smtp_check (lines 137-148): the next host of
\* the for loop, or the end of the loop
LoopHead ==
    /\ pc = "loop"
    /\ IF idx < Len(mx_hosts)
       THEN /\ idx' = idx + 1
            /\ sres' = NewSmtpResult(mx_hosts[idx + 1][2])
            /\ pc' = "connect"
       ELSE /\ pc' = "finish"
            /\ UNCHANGED <<idx, sres>>
    /\ UNCHANGED <<email, result, domain, dnsAnswer, mx_hosts, smtp_verified,
                   smtp_response, is_catch_all, response, catch_all_response,
                   netVars>>

(***************************************************************************)
(* smtp_check, one action per network exchange                             *)
(***************************************************************************)
\* lines 221-228: an exception of the given kind leaves the try block; the
\* handler sets the message and the function returns result
Raise(kind) ==
    /\ sres' = [sres EXCEPT !.message = ExceptMessage(kind)]
    /\ convo' = [convo EXCEPT !.raised = TRUE, !.finished = TRUE]
    /\ pc' = "returned"

\* sock.send(cmd) raising
SendRaises ==
    /\ \E kind \in SockErrors : Raise(kind)
    /\ UNCHANGED <<response, catch_all_response, wire, openSocks>>

\* sock.send(cmd) done, then sock.recv raising
RecvRaises(cmd) ==
    /\ \E kind \in SockErrors : Raise(kind)
    /\ wire' = Append(wire, cmd)
    /\ UNCHANGED <<response, catch_all_response, openSocks>>

\* lines 148-150
Connect ==
    /\ pc = "connect"
    /\ contacted' = Append(contacted, sres.mx_host)
    /\ wire' = << >>
    /\ \/ /\ openSocks' = openSocks + 1
          /\ convo' = [NoConvo EXCEPT !.opened = TRUE]
          /\ pc' = "greeting"
          /\ UNCHANGED sres
       \/ /\ \E kind \in ConnectErrors :
                sres' = [sres EXCEPT !.message = ExceptMessage(kind)]
          /\ convo' = [NoConvo EXCEPT !.raised = TRUE, !.finished = TRUE]
          /\ pc' = "returned"
          /\ UNCHANGED openSocks
    /\ UNCHANGED <<email, result, domain, dnsAnswer, loopVars, response,
                   catch_all_response, dnsQueries, dnsError>>

\* the greeting read without the test of line 154
GreetingUnchecked ==
    /\ pc = "greeting"
    /\ \/ \E r \in GreetingReplies :
            /\ response' = r
            /\ pc' = "ehlo"
            /\ convo' = [convo EXCEPT !.greeting = <<r>>]
            /\ UNCHANGED <<sres, wire, openSocks>>
            /\ UNCHANGED catch_all_response
       \/ /\ \E kind \in SockErrors : Raise(kind)
          /\ UNCHANGED <<response, catch_all_response, wire, openSocks>>
    /\ UNCHANGED <<email, result, domain, dnsAnswer, loopVars, contacted,
                   dnsQueries, dnsError>>

\* lines 153-157
Greeting ==
    /\ pc = "greeting"
    /\ \/ \E r \in GreetingReplies :
            /\ response' = r
            /\ IF ~StartsWith(r, R220)
               THEN /\ sres' = [sres EXCEPT !.message = "Bad greeting: "]
                    /\ wire' = Append(wire, "close")
                    /\ openSocks' = openSocks - 1
                    /\ convo' = [convo EXCEPT !.greeting = <<r>>,
                                              !.finished = TRUE]
                    /\ pc' = "returned"
               ELSE /\ pc' = "ehlo"
                    /\ convo' = [convo EXCEPT !.greeting = <<r>>]
                    /\ UNCHANGED <<sres, wire, openSocks>>
            /\ UNCHANGED catch_all_response
       \/ /\ \E kind \in SockErrors : Raise(kind)
          /\ UNCHANGED <<response, catch_all_response, wire, openSocks>>
    /\ UNCHANGED <<email, result, domain, dnsAnswer, loopVars, contacted,
                   dnsQueries, dnsError>>

\* lines 160-162
Ehlo ==
    /\ pc = "ehlo"
    /\ \/ \E r \in HelloReplies :
            /\ response' = r
            /\ wire' = Append(wire, "EHLO")
            /\ pc' = IF ~(StartsWith(r, R250) \/ StartsWith(r, R220))
                     THEN "helo" ELSE "mail_from"
            /\ UNCHANGED <<sres, catch_all_response, openSocks, convo>>
       \/ SendRaises
       \/ RecvRaises("EHLO")
    /\ UNCHANGED <<email, result, domain, dnsAnswer, loopVars, contacted,
                   dnsQueries, dnsError>>

\* lines 164-165
Helo ==
    /\ pc = "helo"
    /\ \/ \E r \in HelloReplies :
            /\ response' = r
            /\ wire' = Append(wire, "HELO")
            /\ pc' = "mail_from"
            /\ UNCHANGED <<sres, catch_all_response, openSocks, convo>>
       \/ SendRaises
       \/ RecvRaises("HELO")
    /\ UNCHANGED <<email, result, domain, dnsAnswer, loopVars, contacted,
                   dnsQueries, dnsError>>

\* lines 168-174
MailFrom ==
    /\ pc = "mail_from"
    /\ \/ \E r \in MailReplies :
            /\ response' = r
            /\ IF ~StartsWith(r, R250)
               THEN \* sock.send(b"QUIT\r\n") may raise before sock.close()
                    \/ /\ sres' = [sres EXCEPT
                                     !.message = "MAIL FROM rejected: "]
                       /\ wire' = wire \o <<"MAIL FROM", "QUIT", "close">>
                       /\ openSocks' = openSocks - 1
                       /\ convo' = [convo EXCEPT !.mail = <<r>>,
                                                 !.finished = TRUE]
                       /\ pc' = "returned"
                    \/ /\ \E kind \in SockErrors :
                            sres' = [sres EXCEPT
                                       !.message = ExceptMessage(kind)]
                       /\ wire' = Append(wire, "MAIL FROM")
                       /\ convo' = [convo EXCEPT !.mail = <<r>>,
                                                 !.raised = TRUE,
                                                 !.finished = TRUE]
                       /\ pc' = "returned"
                       /\ UNCHANGED openSocks
               ELSE /\ wire' = Append(wire, "MAIL FROM")
                    /\ convo' = [convo EXCEPT !.mail = <<r>>]
                    /\ pc' = "rcpt_real"
                    /\ UNCHANGED <<sres, openSocks>>
            /\ UNCHANGED catch_all_response
       \/ SendRaises
       \/ RecvRaises("MAIL FROM")
    /\ UNCHANGED <<email, result, domain, dnsAnswer, loopVars, contacted,
                   dnsQueries, dnsError>>

\* lines 177-179
RcptReal ==
    /\ pc = "rcpt_real"
    /\ \/ \E r \in RcptReplies :
            /\ response' = r
            /\ sres' = [sres EXCEPT !.smtp_code = SmtpCode(r)]
            /\ wire' = Append(wire, "RCPT TO real")
            /\ convo' = [convo EXCEPT !.real = <<r>>]
            /\ pc' = "rcpt_fake"
            /\ UNCHANGED <<catch_all_response, openSocks>>
       \/ SendRaises
       \/ RecvRaises("RCPT TO real")
    /\ UNCHANGED <<email, result, domain, dnsAnswer, loopVars, contacted,
                   dnsQueries, dnsError>>

\* lines 182-188
RcptFake ==
    /\ pc = "rcpt_fake"
    /\ \/ \E r \in FakeReplies :
            /\ catch_all_response' = r
            /\ wire' = Append(wire, "RCPT TO fake")
            /\ convo' = [convo EXCEPT !.fake = <<r>>]
            /\ pc' = "quit"
            /\ UNCHANGED <<sres, response, openSocks>>
       \/ SendRaises
       \/ RecvRaises("RCPT TO fake")
    /\ UNCHANGED <<email, result, domain, dnsAnswer, loopVars, contacted,
                   dnsQueries, dnsError>>

\* lines 191-219 and 228
QuitAndAnalyze ==
    /\ pc = "quit"
    /\ \/ /\ wire' = wire \o <<"QUIT", "close">>
          /\ openSocks' = openSocks - 1
          /\ sres' = Analyze(sres, response, catch_all_response)
          /\ convo' = [convo EXCEPT !.finished = TRUE]
          /\ pc' = "returned"
          /\ UNCHANGED <<response, catch_all_response>>
       \/ SendRaises
    /\ UNCHANGED <<email, result, domain, dnsAnswer, loopVars, contacted,
                   dnsQueries, dnsError>>

(***************************************************************************)
(* verify_email, after smtp_check returned                                 *)
(***************************************************************************)
\* the handling of a successful check without line 83 (is_catch_all is not
\* taken from the outcome)
HandleReturnNoCatchAll ==
    /\ pc = "returned"
    /\ smtp_response' = sres
    /\ IF sres.success
       THEN /\ smtp_verified' = TRUE
            /\ pc' = "finish"
            /\ UNCHANGED <<result, is_catch_all>>
       ELSE IF sres.definitive_failure
       THEN /\ result' = [result EXCEPT !.smtp_check = FALSE,
                                        !.smtp_response = sres,
                                        !.status = "invalid",
                                        !.message = sres.message]
            /\ pc' = "done"
            /\ UNCHANGED <<smtp_verified, is_catch_all>>
       ELSE /\ pc' = "loop"
            /\ UNCHANGED <<result, smtp_verified, is_catch_all>>
    /\ sres' = None
    /\ response' = << >>
    /\ catch_all_response' = << >>
    /\ UNCHANGED <<email, domain, dnsAnswer, mx_hosts, idx, netVars>>

\* lines 77-90.  smtp_check catches every Exception itself, so the handler
\* of lines 92-94 is never entered and has no action here.
HandleReturn ==
    /\ pc = "returned"
    /\ smtp_response' = sres
    /\ IF sres.success
       THEN /\ smtp_verified' = TRUE
            /\ is_catch_all' = sres.catch_all
            /\ pc' = "finish"
            /\ UNCHANGED result
       ELSE IF sres.definitive_failure
       THEN /\ result' = [result EXCEPT !.smtp_check = FALSE,
                                        !.smtp_response = sres,
                                        !.status = "invalid",
                                        !.message = sres.message]
            /\ pc' = "done"
            /\ UNCHANGED <<smtp_verified, is_catch_all>>
       ELSE /\ pc' = "loop"
            /\ UNCHANGED <<result, smtp_verified, is_catch_all>>
    /\ sres' = None
    /\ response' = << >>
    /\ catch_all_response' = << >>
    /\ UNCHANGED <<email, domain, dnsAnswer, mx_hosts, idx, netVars>>

\* the final branch adding the 50 points whether or not a host accepted
FinishAlwaysAdds ==
    /\ pc = "finish"
    /\ LET r1 == [result EXCEPT !.smtp_response = smtp_response,
                                !.score = @ + 50]
       IN  IF smtp_verified
           THEN IF is_catch_all
                THEN result' = [r1 EXCEPT
                       !.smtp_check = TRUE,
                       !.score = @ - 20,
                       !.status = "risky",
                       !.message = "Server accepts all emails (catch-all) - cannot definitively verify"]
                ELSE result' = [r1 EXCEPT
                       !.smtp_check = TRUE,
                       !.status = "valid",
                       !.message = "Email address verified successfully"]
           ELSE result' = [r1 EXCEPT
                  !.status = "unknown",
                  !.message = "Could not verify via SMTP - server may be blocking verification"]
    /\ pc' = "done"
    /\ UNCHANGED <<email, domain, dnsAnswer, loopVars, checkVars, netVars>>

\* the final branch without line 96 (the last outcome is not stored)
FinishNoResponse ==
    /\ pc = "finish"
    /\ IF smtp_verified
       THEN IF is_catch_all
            THEN result' = [result EXCEPT
                   !.smtp_check = TRUE,
                   !.score = @ + 50 - 20,
                   !.status = "risky",
                   !.message = "Server accepts all emails (catch-all) - cannot definitively verify"]
            ELSE result' = [result EXCEPT
                   !.smtp_check = TRUE,
                   !.score = @ + 50,
                   !.status = "valid",
                   !.message = "Email address verified successfully"]
       ELSE result' = [result EXCEPT
              !.status = "unknown",
              !.message = "Could not verify via SMTP - server may be blocking verification"]
    /\ pc' = "done"
    /\ UNCHANGED <<email, domain, dnsAnswer, loopVars, checkVars, netVars>>

\* the final branch without the catch-all penalty
FinishNoPenalty ==
    /\ pc = "finish"
    /\ LET r1 == [result EXCEPT !.smtp_response = smtp_response]
       IN  IF smtp_verified
           THEN IF is_catch_all
                THEN result' = [r1 EXCEPT
                       !.smtp_check = TRUE,
                       !.score = @ + 50,
                       !.status = "risky",
                       !.message = "Server accepts all emails (catch-all) - cannot definitively verify"]
                ELSE result' = [r1 EXCEPT
                       !.smtp_check = TRUE,
                       !.score = @ + 50,
                       !.status = "valid",
                       !.message = "Email address verified successfully"]
           ELSE result' = [r1 EXCEPT
                  !.status = "unknown",
                  !.message = "Could not verify via SMTP - server may be blocking verification"]
    /\ pc' = "done"
    /\ UNCHANGED <<email, domain, dnsAnswer, loopVars, checkVars, netVars>>

\* lines 96-113
Finish ==
    /\ pc = "finish"
    /\ LET r1 == [result EXCEPT !.smtp_response = smtp_response]
       IN  IF smtp_verified
           THEN IF is_catch_all
                THEN result' = [r1 EXCEPT
                       !.smtp_check = TRUE,
                       !.score = @ + 50 - 20,
                       !.status = "risky",
                       !.message = "Server accepts all emails (catch-all) - cannot definitively verify"]
                ELSE result' = [r1 EXCEPT
                       !.smtp_check = TRUE,
                       !.score = @ + 50,
                       !.status = "valid",
                       !.message = "Email address verified successfully"]
           ELSE result' = [r1 EXCEPT
                  !.status = "unknown",
                  !.message = "Could not verify via SMTP - server may be blocking verification"]
    /\ pc' = "done"
    /\ UNCHANGED <<email, domain, dnsAnswer, loopVars, checkVars, netVars>>

Next ==
    \/ SyntaxGate
    \/ Resolve
    \/ LoopHead
    \/ Connect
    \/ Greeting
    \/ Ehlo
    \/ Helo
    \/ MailFrom
    \/ RcptReal
    \/ RcptFake
    \/ QuitAndAnalyze
    \/ HandleReturn
    \/ Finish

Spec == Init /\ [][Next]_vars

(***************************************************************************)
(* Properties                                                              *)
(***************************************************************************)
\* The latest conversation ran to its end: both RCPT replies were received,
\* QUIT was sent and the socket closed, and no socket operation raised.
Completed ==
    /\ convo.finished
    /\ ~convo.raised
    /\ convo.real # << >>
    /\ convo.fake # << >>

\* the reply to RCPT TO for the real address in the latest conversation
RealReply == convo.real[1]
\* the reply to RCPT TO for the random address in the latest conversation
FakeReply == convo.fake[1]

\* C1: an input that fails the syntax pattern gets status invalid and
\* score 0, and neither a DNS query nor a connection is ever made for it.
C1_SyntaxFailureIsInvalid ==
    ~ReMatch(email) =>
        /\ pc \in {"syntax", "done"}
        /\ dnsQueries = 0
        /\ contacted = << >>
        /\ openSocks = 0
        /\ pc = "done" => /\ result.status = "invalid"
                          /\ result.score = 0
                          /\ ~result.syntax_valid

C1_Witness ==
    /\ pc = "done"
    /\ email = <<"a", "@", "a", ".", "a">>
    /\ ~ReMatch(email)
    /\ result.status = "invalid"

\* C2: when the address is well-formed and the resolver reports no answer
\* or a non-existent domain, the result is invalid with mx_found false and
\* syntax_valid true, and no host was contacted.
C2_NoMxIsInvalid ==
    (pc = "done" /\ dnsError \in {"NoAnswer", "NXDOMAIN"}) =>
        /\ result.status = "invalid"
        /\ ~result.mx_found
        /\ result.syntax_valid
        /\ contacted = << >>
        /\ openSocks = 0

C2_Witness ==
    /\ pc = "done"
    /\ dnsError = "NXDOMAIN"
    /\ result.syntax_valid
    /\ dnsQueries = 1

\* C3: when the MX lookup fails for a reason of resolver infrastructure (a
\* timeout, or all nameservers failing to answer), the result is unknown,
\* never invalid.
C3_InfrastructureFailureIsUnknown ==
    (pc = "done" /\ dnsError \in {"Timeout", "NoNameservers"}) =>
        result.status = "unknown"

\* C4: hosts are contacted in ascending preference order, one at a time and
\* each entry of the list once: the hosts contacted so far are a prefix of
\* the sorted host list, which holds exactly the records of the DNS answer
\* with non-decreasing preference.
C4_HostOrder ==
    /\ Len(contacted) <= Len(result.mx_records)
    /\ \A i \in 1..Len(contacted) : contacted[i] = result.mx_records[i]
    /\ Len(contacted) = IF pc = "connect" THEN idx - 1 ELSE idx
    /\ Len(result.mx_records) = Len(mx_hosts)
    /\ \A i \in 1..Len(mx_hosts) : result.mx_records[i] = mx_hosts[i][2]
    /\ \A i \in 1..(Len(mx_hosts) - 1) : mx_hosts[i][1] <= mx_hosts[i + 1][1]
    /\ Len(mx_hosts) = Cardinality(dnsAnswer)
    /\ {mx_hosts[i] : i \in 1..Len(mx_hosts)} =
          {<<r.preference, RStripDot(r.exchange)>> : r \in dnsAnswer}

C4_Witness ==
    /\ dnsAnswer = {[preference |-> 10, exchange |-> <<"a", ".">>],
                    [preference |-> 5, exchange |-> <<"b", ".">>]}
    /\ contacted = << <<"b">>, <<"a">> >>

\* C5: when a conversation ends with the real RCPT TO reply being 550, 551
\* or 553, its outcome is a definitive failure, verify_email returns
\* invalid at once, and no host after that one is contacted.
C5_DefinitiveFailureStops ==
    (/\ Completed
     /\ \/ StartsWith(RealReply, R550)
        \/ StartsWith(RealReply, R551)
        \/ StartsWith(RealReply, R553)) =>
        /\ pc \in {"returned", "done"}
        /\ pc = "returned" => sres.definitive_failure /\ ~sres.success
        /\ pc = "done" => /\ result.status = "invalid"
                          /\ result.smtp_response # None
                          /\ result.smtp_response.definitive_failure
                          /\ Len(contacted) = idx
                          /\ contacted[idx] = result.smtp_response.mx_host

C5_Witness ==
    /\ pc = "done"
    /\ Completed
    /\ StartsWith(RealReply, R551)
    /\ result.status = "invalid"
    /\ Len(contacted) = 1
    /\ Len(mx_hosts) = 2

\* C6: when a conversation ends with the real reply 250 or 251 and a reply
\* to the random address that is not a 2xx acceptance, verify_email stops at
\* that host and returns valid with score 100 and smtp_check true, also
\* after earlier hosts were inconclusive.
C6_AcceptedIsValid ==
    (/\ Completed
     /\ StartsWith(RealReply, R250) \/ StartsWith(RealReply, R251)
     /\ ~StartsWith(FakeReply, <<"2">>)) =>
        /\ pc \in {"returned", "finish", "done"}
        /\ pc = "returned" => sres.success /\ ~sres.catch_all
        /\ pc = "done" => /\ result.status = "valid"
                          /\ result.score = 100
                          /\ result.smtp_check
                          /\ Len(contacted) = idx
                          /\ contacted[idx] = result.smtp_response.mx_host

C6_Witness ==
    /\ pc = "done"
    /\ Completed
    /\ StartsWith(RealReply, R251)
    /\ FakeReply = R550
    /\ Len(contacted) = 2
    /\ result.status = "valid"

\* C7: when a conversation ends with the real reply 250 and the reply to
\* the random address 250 as well, the outcome has success and catch_all
\* true, and verify_email returns risky with score 80.
C7_CatchAllIsRisky ==
    (/\ Completed
     /\ StartsWith(RealReply, R250)
     /\ StartsWith(FakeReply, R250)) =>
        /\ pc \in {"returned", "finish", "done"}
        /\ pc = "returned" => sres.success /\ sres.catch_all
        /\ pc = "done" => /\ result.status = "risky"
                          /\ result.score = 80
                          /\ result.smtp_response.success
                          /\ result.smtp_response.catch_all

C7_Witness ==
    /\ pc = "done"
    /\ Completed
    /\ RealReply = R250
    /\ FakeReply = R250
    /\ result.score = 80

\* C8: when a conversation ends with the real reply 252, the outcome has
\* success and catch_all true whatever the reply to the random address was,
\* and verify_email returns risky, never valid.
C8_CannotVerifyIsRisky ==
    (Completed /\ StartsWith(RealReply, R252)) =>
        /\ pc \in {"returned", "finish", "done"}
        /\ pc = "returned" => sres.success /\ sres.catch_all
        /\ pc = "done" => /\ result.status = "risky"
                          /\ result.smtp_response.success
                          /\ result.smtp_response.catch_all

C8_Witness ==
    /\ pc = "done"
    /\ Completed
    /\ RealReply = R252
    /\ FakeReply = R550
    /\ result.status = "risky"

\* C9: the step that probes the random address never decides the verdict on
\* the real address: once the real RCPT TO reply is in, the success and
\* definitive_failure flags of the outcome depend on that reply alone,
\* whatever happens afterwards in the conversation (a reply, a timeout, a
\* dropped connection); a real reply 550 always gives a definitive failure.
C9_SyntheticProbeNeverDecides ==
    (pc = "returned" /\ convo.real # << >>) =>
        /\ sres.success <=> \/ StartsWith(RealReply, R250)
                            \/ StartsWith(RealReply, R251)
                            \/ StartsWith(RealReply, R252)
        /\ sres.definitive_failure <=> \/ StartsWith(RealReply, R550)
                                       \/ StartsWith(RealReply, R551)
                                       \/ StartsWith(RealReply, R553)

\* C10: whenever smtp_check has returned, and when verify_email ends, every
\* connection that was opened has been closed.
C10_SocketAlwaysClosed ==
    pc \in {"returned", "loop", "finish", "done"} => openSocks = 0

\* An upper bound on the number of steps verify_email still has to take:
\* ten steps for each host not yet tried, the rest of the conversation with
\* the current host, and the final branch.
StageRank ==
    CASE pc = "connect" -> 9
      [] pc = "greeting" -> 8
      [] pc = "ehlo" -> 7
      [] pc = "helo" -> 6
      [] pc = "mail_from" -> 5
      [] pc = "rcpt_real" -> 4
      [] pc = "rcpt_fake" -> 3
      [] pc = "quit" -> 2
      [] pc = "returned" -> 1
      [] OTHER -> 0

StepsLeft ==
    CASE pc = "syntax" -> 4 + 10 * MaxMX
      [] pc = "resolve" -> 3 + 10 * MaxMX
      [] pc = "finish" -> 1
      [] pc = "done" -> 0
      [] OTHER -> 2 + 10 * (Len(mx_hosts) - idx) + StageRank

\* C11: every call of verify_email ends, whatever DNS and the mail servers
\* do, and it ends by returning a result whose status is one of valid,
\* invalid, risky, unknown and whose message is not empty.  Stated as: a call
\* that has not returned can always take a step (nothing escapes, nothing
\* blocks), every step lowers the bound StepsLeft, which never drops below
\* zero, and a call that has returned carries such a result.
C11_AlwaysReturnsResult ==
    /\ [](pc # "done" => ENABLED Next)
    /\ [][StepsLeft' < StepsLeft]_vars
    /\ [](StepsLeft >= 0)
    /\ [](pc = "done" =>
            /\ result.status \in {"valid", "invalid", "risky", "unknown"}
            /\ result.message # "")

C11_Witness ==
    /\ pc = "done"
    /\ convo.raised
    /\ Len(contacted) = 2
    /\ result.status = "unknown"
    /\ result.message # ""

\* result['smtp_response'] holds the outcome of a call of smtp_check
HasOutcome == "success" \in DOMAIN result.smtp_response

\* C12: a returned result with status valid has smtp_check true, and the
\* outcome stored in smtp_response, which is the outcome of the host contacted
\* last, has success true and catch_all false.
C12_ValidMeansAcceptedNotCatchAll ==
    (pc = "done" /\ result.status = "valid") =>
        /\ result.smtp_check
        /\ HasOutcome
        /\ result.smtp_response.mx_host = contacted[Len(contacted)]
        /\ result.smtp_response.success
        /\ ~result.smtp_response.catch_all

C12_Witness ==
    /\ pc = "done"
    /\ result.status = "valid"
    /\ Len(contacted) = 2
    /\ result.smtp_check
    /\ result.smtp_response.success
    /\ ~result.smtp_response.catch_all

\* C13: a returned result with status invalid has syntax_valid false, or
\* mx_found false, or carries the outcome of a contacted host whose
\* definitive_failure is true.
C13_InvalidHasACause ==
    (pc = "done" /\ result.status = "invalid") =>
        \/ ~result.syntax_valid
        \/ ~result.mx_found
        \/ /\ HasOutcome
           /\ result.smtp_response.definitive_failure
           /\ \E i \in 1..Len(contacted) :
                contacted[i] = result.smtp_response.mx_host

C13_Witness ==
    /\ pc = "done"
    /\ result.status = "invalid"
    /\ result.syntax_valid
    /\ result.mx_found
    /\ Len(contacted) = 2
    /\ result.smtp_response.definitive_failure

\* The latest conversation is over and was inconclusive: the connection
\* failed or a socket operation raised, or the conversation was aborted
\* before the real RCPT TO (bad greeting, MAIL FROM rejected), or the reply to
\* the real RCPT TO is neither an acceptance (250, 251, 252) nor a definitive
\* rejection (550, 551, 553).
Inconclusive ==
    /\ convo.finished
    /\ \/ convo.raised
       \/ convo.real = << >>
       \/ ~(\/ IsAccepted(RealReply)
            \/ StartsWith(RealReply, R252)
            \/ IsDefinitive(RealReply))

\* C14: when every host of the list has been tried and the last one, like the
\* ones before it, was inconclusive, the returned result has status unknown
\* and smtp_check false, and smtp_response is the outcome of the last host in
\* preference order.
C14_ExhaustedIsUnknown ==
    (/\ pc = "done"
     /\ Len(mx_hosts) > 0
     /\ Len(contacted) = Len(mx_hosts)
     /\ Inconclusive) =>
        /\ result.status = "unknown"
        /\ ~result.smtp_check
        /\ HasOutcome
        /\ result.smtp_response.mx_host = mx_hosts[Len(mx_hosts)][2]
        /\ ~result.smtp_response.success
        /\ ~result.smtp_response.definitive_failure
        /\ convo.real # << >> =>
             result.smtp_response.smtp_code = SmtpCode(RealReply)

C14_Witness ==
    /\ pc = "done"
    /\ Len(mx_hosts) = 2
    /\ Len(contacted) = 2
    /\ Inconclusive
    /\ result.status = "unknown"
    /\ result.smtp_response.mx_host = mx_hosts[2][2]
    /\ result.smtp_response.message = "Temporary failure: "

\* C15: an inconclusive outcome is never terminal while hosts remain.  The
\* loop is left (final branch or return) after an inconclusive conversation
\* only when every host has been contacted; an inconclusive outcome with
\* hosts remaining sends verify_email back to the loop with result untouched,
\* the loop then probes the next host of mx_hosts, and that host is the one
\* contacted.
C15_InconclusiveContinues ==
    /\ []((/\ pc \in {"finish", "done"}
           /\ contacted # << >>
           /\ Inconclusive) => Len(contacted) = Len(mx_hosts))
    /\ [][(pc = "returned" /\ Inconclusive /\ idx < Len(mx_hosts)) =>
            (pc' = "loop" /\ result' = result)]_vars
    /\ [][(pc = "loop" /\ idx < Len(mx_hosts)) =>
            (pc' = "connect" /\ sres'.mx_host = mx_hosts[idx + 1][2])]_vars
    /\ [][pc = "connect" =>
            contacted' = Append(contacted, mx_hosts[idx][2])]_vars

C15_Witness ==
    /\ pc = "greeting"
    /\ idx = 2
    /\ contacted = <<mx_hosts[1][2], mx_hosts[2][2]>>
    /\ smtp_response.message = "Temporary failure: "

\* C17: when the MX query succeeds with an empty list of hosts, the returned
\* result is the one of a domain without MX record: status invalid and
\* mx_found false.
C17_EmptyMxIsInvalid ==
    (/\ pc = "done"
     /\ dnsQueries = 1
     /\ dnsError = ""
     /\ dnsAnswer = {}) =>
        /\ result.status = "invalid"
        /\ ~result.mx_found

\* a reply whose code is one of 250, 251, 252
Is2xx(resp) ==
    StartsWith(resp, R250) \/ StartsWith(resp, R251) \/ StartsWith(resp, R252)

\* C18: when the real address is accepted and the reply to the random address
\* is any of 250, 251, 252, the outcome has success and catch_all true and
\* the returned status is risky.
C18_Any2xxSyntheticIsCatchAll ==
    (/\ Completed
     /\ IsAccepted(RealReply)
     /\ Is2xx(FakeReply)) =>
        /\ pc = "returned" => (sres.success /\ sres.catch_all)
        /\ pc = "done" => result.status = "risky"

\* C19: whenever smtp_check returns after its connection was opened, QUIT
\* has been sent on that connection, and before any close of it.
C19_QuitBeforeClose ==
    (pc = "returned" /\ convo.opened) =>
        \E i \in 1..Len(wire) :
            /\ wire[i] = "QUIT"
            /\ \A j \in 1..Len(wire) : wire[j] = "close" => i < j

\* an RCPT TO command has been sent on the latest connection
RcptSent ==
    \E i \in 1..Len(wire) : wire[i] \in {"RCPT TO real", "RCPT TO fake"}

\* the greeting of the latest conversation was read and does not start with 220
BadGreeting ==
    convo.greeting # << >> /\ ~StartsWith(convo.greeting[1], R220)

\* the MAIL FROM reply of the latest conversation was read and is not 2xx
MailNot2xx ==
    convo.mail # << >> /\ ~StartsWith(convo.mail[1], <<"2">>)

\* C20: within one conversation an RCPT TO is sent only after a greeting that
\* starts with 220 and a 2xx reply to MAIL FROM; after a bad greeting or a
\* MAIL FROM reply that is not 2xx no RCPT TO is sent and smtp_check returns
\* an outcome with success and definitive_failure both false; and the RCPT TO
\* for the random address is only sent after the one for the real address.
C20_RcptOnlyAfterHandshake ==
    /\ RcptSent =>
         /\ convo.greeting # << >>
         /\ StartsWith(convo.greeting[1], R220)
         /\ convo.mail # << >>
         /\ StartsWith(convo.mail[1], <<"2">>)
    /\ (BadGreeting \/ MailNot2xx) =>
         /\ ~RcptSent
         /\ convo.finished
         /\ pc = "returned" =>
              (~sres.success /\ ~sres.definitive_failure)
    /\ \A j \in 1..Len(wire) :
         wire[j] = "RCPT TO fake" =>
             \E i \in 1..(j - 1) : wire[i] = "RCPT TO real"

C20_Witness ==
    /\ pc = "returned"
    /\ convo.mail = <<R550>>
    /\ wire = <<"EHLO", "MAIL FROM", "QUIT", "close">>
    /\ ~sres.success
    /\ ~sres.definitive_failure

\* a reply whose status is in the 2xx class
Is2xxClass(resp) == StartsWith(resp, <<"2">>)

\* the number of entries of the wire equal to cmd
RECURSIVE Count(_, _)
Count(w, cmd) ==
    IF w = << >> THEN 0
    ELSE (IF w[1] = cmd THEN 1 ELSE 0) + Count(Tail(w), cmd)

\* C21: HELO is sent exactly when the EHLO reply is neither in the 2xx class
\* nor 220, and then once.  At "helo" (HELO is the next command) and at
\* "mail_from" with no HELO on the wire, response is the EHLO reply; EHLO and
\* HELO each appear at most once on the wire of a conversation, and HELO is
\* followed by no hello command.
C21_HeloFallbackOnce ==
    /\ pc = "helo" =>
         ~(Is2xxClass(response) \/ StartsWith(response, R220))
    /\ (pc = "mail_from" /\ Count(wire, "HELO") = 0) =>
         (Is2xxClass(response) \/ StartsWith(response, R220))
    /\ Count(wire, "EHLO") <= 1
    /\ Count(wire, "HELO") <= 1
    /\ \A i \in 1..Len(wire) :
         wire[i] = "HELO" =>
             /\ i = 2
             /\ wire[1] = "EHLO"
             /\ \A j \in (i + 1)..Len(wire) : wire[j] \notin {"EHLO", "HELO"}

\* the score the flags of a result stand for
ScoreOf(r) ==
    (IF r.syntax_valid THEN 20 ELSE 0)
    + (IF r.mx_found THEN 30 ELSE 0)
    + (IF r.smtp_check THEN 50 ELSE 0)
    - (IF r.status = "risky" THEN 20 ELSE 0)

\* C22: the score of the result is, at every point of verify_email and so in
\* every returned result, 20 if syntax_valid plus 30 if mx_found plus 50 if
\* smtp_check minus 20 if the status is risky; it is one of 0, 20, 50, 80,
\* 100; a result returned for a definitive failure has score 50; and once
\* verify_email has returned nothing changes the result.
C22_ScoreFormula ==
    /\ [](result.score = ScoreOf(result))
    /\ [](result.score \in {0, 20, 50, 80, 100})
    /\ []((/\ pc = "done"
           /\ HasOutcome
           /\ result.smtp_response.definitive_failure) => result.score = 50)
    /\ [][pc = "done" => result' = result]_vars

C22_Witness ==
    /\ pc = "done"
    /\ result.status = "risky"
    /\ result.syntax_valid
    /\ result.mx_found
    /\ result.smtp_check
    /\ result.score = 80

\* C23: every outcome smtp_check returns has success and definitive_failure
\* not both true and catch_all only together with success; an outcome
\* returned after the connection failed or a socket operation raised has
\* success, catch_all and definitive_failure all false.
C23_OutcomeFlags ==
    pc = "returned" =>
        /\ ~(sres.success /\ sres.definitive_failure)
        /\ sres.catch_all => sres.success
        /\ convo.raised =>
             (/\ ~sres.success
              /\ ~sres.catch_all
              /\ ~sres.definitive_failure)

C23_Witness ==
    /\ pc = "returned"
    /\ convo.raised
    /\ convo.real = <<R250>>
    /\ convo.fake = <<R250>>
    /\ ~sres.success
    /\ ~sres.catch_all
    /\ ~sres.definitive_failure

====
